---- MODULE Spec2Model ----
(***************************************************************************)
(* License verification handler of verification-app                        *)
(* (netlify/functions/verify.js): the license_codes table (store), the     *)
(* invocations waiting on the store (req), the wall clock, the signing     *)
(* key, the invocation that has just returned (out) and the activations    *)
(* and expiries answered so far (returned).                                *)
(*                                                                         *)
(* Spec runs overlapping requests on a table of one code; SpecRequest runs *)
(* one request at a time, of every method and body, on a table of two.     *)
(*                                                                         *)
(* Time is in milliseconds, the unit of Date.now().  A nullable column or  *)
(* JSON value is a sequence: <<>> is NULL/null, <<v>> is the value v.      *)
(* A code is a sequence of characters so that trim() and startsWith() are  *)
(* computed on it.                                                         *)
(***************************************************************************)
EXTENDS Integers, Sequences, FiniteSets, Bags, TLC

VARIABLES store, clock, ticks, PRIVATE_KEY, req, returned, out

vars == <<store, clock, ticks, PRIVATE_KEY, req, returned, out>>

----------------------------------------------------------------------------
(* Bounds *)

MaxTicks == 2

MaxInFlight == 2

----------------------------------------------------------------------------
(* Program constants *)

\* 10 * 60 * 1000, the handler's own trial length
TRIAL_MS == 600000

\* INTERVAL '10 minutes', the store's trial length
TRIAL_INTERVAL_MS == 600000

\* INTERVAL '1 day', the trial length of the earlier variant of the handler
DAY_MS == 86400000

MS_PER_MINUTE == 60000

TRIAL_PREFIX == <<"T", "R", "I", "A", "L", "-">>

----------------------------------------------------------------------------
(* Values *)

NULL == <<>>

Val(v) == <<v>>

M1 == <<"M", "1">>

M2 == <<"M", "2">>

Machines == {M1, M2}

CodeABC == <<"A", "B", "C">>

CodeTrial == <<"T", "R", "I", "A", "L", "-", "X">>

CodeNope == <<"N", "O">>

Ids == {1, 2}

ClockSteps == {1, TRIAL_MS}

----------------------------------------------------------------------------
(* String helpers *)

RECURSIVE TrimLeft(_)
TrimLeft(s) ==
    IF s # <<>> /\ Head(s) = " " THEN TrimLeft(Tail(s)) ELSE s

RECURSIVE TrimRight(_)
TrimRight(s) ==
    IF s # <<>> /\ s[Len(s)] = " " THEN TrimRight(SubSeq(s, 1, Len(s) - 1)) ELSE s

Trim(s) == TrimRight(TrimLeft(s))

StartsWith(s, p) ==
    /\ Len(s) >= Len(p)
    /\ SubSeq(s, 1, Len(p)) = p

----------------------------------------------------------------------------
(* Requests: event.httpMethod and event.body *)

Methods == {"POST", "OPTIONS", "GET"}

MalformedBody == [json |-> FALSE, licenseCode |-> NULL, machineId |-> NULL]

Body(licenseCode, machineId) ==
    [json |-> TRUE, licenseCode |-> licenseCode, machineId |-> machineId]

\* Bodies naming a seeded code as it is stored
KnownBodies == {Body(Val(c), Val(m)) : c \in {CodeABC, CodeTrial}, m \in Machines}

\* Bodies that pass the field check
ValidBodies ==
    {Body(Val(c), Val(m)) :
        c \in {CodeABC, <<" ">> \o CodeABC \o <<" ">>, CodeTrial, CodeNope, <<" ">>},
        m \in Machines}

\* Bodies with a missing (NULL) or empty field
FalsyBodies ==
    {Body(c, Val(M1)) : c \in {NULL, Val(<<>>)}}
    \cup {Body(Val(CodeABC), m) : m \in {NULL, Val(<<>>)}}
    \cup {Body(NULL, NULL)}

Bodies == {MalformedBody} \cup FalsyBodies \cup ValidBodies

\* !v for a JSON string or a missing field
\* Only a missing field fails the check, an empty string passes
FalsyMissingOnly(v) == v = NULL

Falsy(v) == v = NULL \/ v = Val(<<>>)

----------------------------------------------------------------------------
(* Dates *)

\* new Date(null) is the epoch
NewDate(col) == IF col = NULL THEN 0 ELSE col[1]

ToISOString(t) == <<"ISO", t>>

\* The minutes that have gone by of the trial, not the minutes left
RoundMinutesElapsed(x) ==
    (2 * (TRIAL_MS - x) + MS_PER_MINUTE) \div (2 * MS_PER_MINUTE)

\* Math.round(x / 60000) for x >= 0: halves round up
RoundMinutes(x) == (2 * x + MS_PER_MINUTE) \div (2 * MS_PER_MINUTE)

Max(a, b) == IF a >= b THEN a ELSE b

----------------------------------------------------------------------------
(* Messages *)

MsgMethodNotAllowed == <<"Method Not Allowed">>

MsgRequired == <<"License code and machine ID required.">>

MsgInvalid == <<"Invalid license code.">>

MsgOtherDevice == <<"This license is already used on another device.">>

MsgTrialExpired == <<"Trial period has expired. Please upgrade to a lifetime license.">>

MsgTrialActive(minutesLeft) == <<"Trial active. Expires in ", minutesLeft, " minutes.">>

MsgVerified == <<"License verified successfully.">>

MsgTrialActivated == <<"Trial activated for 10 minutes.">>

MsgLifetimeActivated == <<"Lifetime license activated successfully.">>

MsgServerError == <<"Server error.">>

----------------------------------------------------------------------------
(* Signing *)

\* A key is a sequence of pieces of text; "\\n" is the two characters
\* backslash and n, "LF" a line feed
PemKey == <<"BEGIN PRIVATE KEY", "LF", "END PRIVATE KEY">>

\* process.env.LICENSE_PRIVATE_KEY: unset, empty, a key with escaped or with
\* real line feeds, text that is no key
KeyEnvs ==
    {NULL, Val(<<>>), Val(<<"BEGIN PRIVATE KEY", "\\n", "END PRIVATE KEY">>),
     Val(PemKey), Val(<<"no key">>)}

\* key.replace(/\\n/g, "\n"); !key holds of an unset and of an empty variable
getFormattedKey(key) ==
    IF key = NULL \/ key = Val(<<>>)
    THEN NULL
    ELSE Val([i \in 1..Len(key[1]) |-> IF key[1][i] = "\\n" THEN "LF" ELSE key[1][i]])

\* The signature covers (success, message, machineId, isTrial) only
signResponseNoExpiry(success, message, machineId, isTrial, expiryDate) ==
    IF PRIVATE_KEY # Val(PemKey)
    THEN NULL
    ELSE Val([key |-> PRIVATE_KEY[1],
              payload |-> [success |-> success, message |-> message,
                           machineId |-> machineId, isTrial |-> isTrial]])

\* Without a key the payload is signed all the same
signResponseUnkeyed(success, message, machineId, isTrial, expiryDate) ==
    IF PRIVATE_KEY # NULL /\ PRIVATE_KEY # Val(PemKey)
    THEN NULL
    ELSE Val([key |-> PRIVATE_KEY,
              payload |-> [success |-> success, message |-> message,
                           machineId |-> machineId, isTrial |-> isTrial,
                           expiryDate |-> expiryDate]])

\* crypto's sign() throws on a key that is not a private key; the catch
\* returns null
signResponse(success, message, machineId, isTrial, expiryDate) ==
    IF PRIVATE_KEY = NULL
    THEN NULL
    ELSE IF PRIVATE_KEY # Val(PemKey)
         THEN NULL
         ELSE Val([key |-> PRIVATE_KEY[1],
                   payload |-> [success |-> success, message |-> message,
                                machineId |-> machineId, isTrial |-> isTrial,
                                expiryDate |-> expiryDate]])

----------------------------------------------------------------------------
(* Responses: statusCode and the JSON body; keys are the body's fields *)

NoResponse ==
    [statusCode |-> 0, keys |-> {}, success |-> FALSE, message |-> <<>>,
     isTrial |-> FALSE, expiryDate |-> NULL, signature |-> NULL]

Preflight == [NoResponse EXCEPT !.statusCode = 204]

Plain(status, msg) ==
    [NoResponse EXCEPT !.statusCode = status, !.keys = {"success", "message"},
                       !.message = msg]

Signed(status, success, msg, sig) ==
    [NoResponse EXCEPT !.statusCode = status,
                       !.keys = {"success", "message", "signature"},
                       !.success = success, !.message = msg, !.signature = sig]

Full(status, success, msg, isTrial, expiryDate, sig) ==
    [statusCode |-> status,
     keys |-> {"success", "message", "isTrial", "expiryDate", "signature"},
     success |-> success, message |-> msg, isTrial |-> isTrial,
     expiryDate |-> expiryDate, signature |-> sig]

----------------------------------------------------------------------------
(* The license_codes table *)

Seed(id, code) ==
    [id |-> id, code |-> code, is_used |-> FALSE, machine_id |-> NULL,
     used_at |-> NULL, created_at |-> Val(0), is_trial |-> FALSE,
     trial_expires_at |-> NULL]

\* SELECT * FROM license_codes WHERE code = $1 LIMIT 1 (code is UNIQUE)
SelectByCode(code) ==
    IF \E id \in DOMAIN store : store[id].code = code
    THEN Val(store[CHOOSE id \in DOMAIN store : store[id].code = code])
    ELSE NULL

\* The SET clause: now is the store's NOW()
Activate(row, machineId, isTrialCode, now, trialExpiry) ==
    [row EXCEPT !.is_used = TRUE,
                !.used_at = Val(now),
                !.machine_id = Val(machineId),
                !.is_trial = isTrialCode,
                !.trial_expires_at = trialExpiry]

\* ... WHERE id = $3 AND is_used = false
UpdateQueryIfUnused(machineId, isTrialCode, id) ==
    [i \in DOMAIN store |->
        IF store[i].id = id /\ ~store[i].is_used
        THEN Activate(store[i], machineId, isTrialCode, clock,
                      IF isTrialCode THEN Val(clock + TRIAL_INTERVAL_MS) ELSE NULL)
        ELSE store[i]]

\* ... trial_expires_at = NOW() + INTERVAL '10 minutes' for every code
UpdateQueryAlwaysExpires(machineId, isTrialCode, id) ==
    [i \in DOMAIN store |->
        IF store[i].id = id
        THEN Activate(store[i], machineId, isTrialCode, clock,
                      Val(clock + TRIAL_INTERVAL_MS))
        ELSE store[i]]

\* ... trial_expires_at = NOW() + INTERVAL '1 day'
UpdateQueryOneDay(machineId, isTrialCode, id) ==
    [i \in DOMAIN store |->
        IF store[i].id = id
        THEN Activate(store[i], machineId, isTrialCode, clock,
                      IF isTrialCode THEN Val(clock + DAY_MS) ELSE NULL)
        ELSE store[i]]

\* UPDATE license_codes SET ... with no WHERE
UpdateQueryEveryRow(machineId, isTrialCode, id) ==
    [i \in DOMAIN store |->
        Activate(store[i], machineId, isTrialCode, clock,
                 IF isTrialCode THEN Val(clock + TRIAL_INTERVAL_MS) ELSE NULL)]

\* UPDATE ... SET is_used, used_at, machine_id, trial_expires_at: is_trial
\* is left as it is
UpdateQueryNoTrialFlag(machineId, isTrialCode, id) ==
    [i \in DOMAIN store |->
        IF store[i].id = id
        THEN Activate(store[i], machineId, store[i].is_trial, clock,
                      IF isTrialCode THEN Val(clock + TRIAL_INTERVAL_MS) ELSE NULL)
        ELSE store[i]]

\* UPDATE license_codes SET ... WHERE id = $3
UpdateQuery(machineId, isTrialCode, id) ==
    [i \in DOMAIN store |->
        IF store[i].id = id
        THEN Activate(store[i], machineId, isTrialCode, clock,
                      IF isTrialCode THEN Val(clock + TRIAL_INTERVAL_MS) ELSE NULL)
        ELSE store[i]]

----------------------------------------------------------------------------
(* Invocations of exports.handler.  req is the bag of the invocations that *)
(* wait on the store: pc "select" waits for the SELECT, "update" for the   *)
(* UPDATE.  initializeDatabase() reads and writes no row, so its await is  *)
(* folded into the invocation's first step.                                *)

Waiting(body) ==
    [pc |-> "select", body |-> body, codeData |-> NULL, isTrialCode |-> FALSE,
     expiryDateValue |-> NULL]

InFlight == BagToSet(req)

Put(inv) == req (+) SetToBag({inv})

Replace(inv, by) == (req (-) SetToBag({inv})) (+) SetToBag({by})

Remove(inv) == req (-) SetToBag({inv})

\* out: the invocation that returned in the last step: its request, the
\* row its SELECT gave (NULL: no row, or no SELECT), the statement that
\* threw into the catch ("": none) and its response
NoOut ==
    [httpMethod |-> "", body |-> MalformedBody, selected |-> FALSE,
     codeData |-> NULL, updated |-> FALSE, failed |-> "",
     response |-> NoResponse]

\* The outcomes later requests are compared with
Kind(resp) ==
    IF resp.statusCode = 402 THEN "TrialExpired"
    ELSE IF resp.message \in {MsgTrialActivated, MsgLifetimeActivated} THEN "Activated"
    ELSE "other"

\* return resp
Return(method, body, selected, codeData, updated, resp) ==
    /\ out' = [httpMethod |-> method, body |-> body, selected |-> selected,
               codeData |-> codeData, updated |-> updated, failed |-> "",
               response |-> resp]
    /\ returned' =
          IF Kind(resp) # "other"
          THEN returned \cup {<<codeData[1].id, body.machineId[1], Kind(resp)>>}
          ELSE returned

\* catch (error): the statement named by failed threw; nothing is retried
Throw(method, body, selected, codeData, failed) ==
    /\ out' = [httpMethod |-> method, body |-> body, selected |-> selected,
               codeData |-> codeData, updated |-> FALSE, failed |-> failed,
               response |-> Plain(500, MsgServerError)]
    /\ UNCHANGED returned

\* The handler is loaded on a table seeded out of band
Start(seeded) ==
    /\ store = seeded
    /\ clock = 0
    /\ ticks = 0
    /\ PRIVATE_KEY \in {getFormattedKey(k) : k \in KeyEnvs}
    /\ req = EmptyBag
    /\ returned = {}
    /\ out = NoOut

\* A table of one code, lifetime or trial.  Rows are read by code and
\* written by id, so requests for different rows do not meet.
SeededOne == {[id \in {1} |-> Seed(id, code)] : code \in {CodeABC, CodeTrial}}

\* A table of both codes
SeededBoth == [id \in Ids |-> Seed(id, IF id = 1 THEN CodeABC ELSE CodeTrial)]

Init == \E seeded \in SeededOne : Start(seeded)

InitRequest == Start(SeededBoth)

\* exports.handler returns before any query: OPTIONS, a method other than
\* POST, a body JSON.parse throws on (the catch), a missing field
Reject(method, body) ==
    /\ \/ method = "OPTIONS" /\ Return(method, body, FALSE, NULL, FALSE, Preflight)
       \/ method \notin {"OPTIONS", "POST"}
          /\ Return(method, body, FALSE, NULL, FALSE, Plain(405, MsgMethodNotAllowed))
       \/ method = "POST" /\ ~body.json
          /\ Throw(method, body, FALSE, NULL, "parse")
       \/ method = "POST" /\ body.json
          /\ (Falsy(body.licenseCode) \/ Falsy(body.machineId))
          /\ Return(method, body, FALSE, NULL, FALSE, Plain(400, MsgRequired))
    /\ UNCHANGED <<store, clock, ticks, PRIVATE_KEY, req>>

\* exports.handler for a POST with both fields, up to the SELECT being sent
Receive(body, limit) ==
    /\ BagCardinality(req) < limit
    /\ body.json
    /\ ~(Falsy(body.licenseCode) \/ Falsy(body.machineId))
    /\ req' = Put(Waiting(body))
    /\ out' = NoOut
    /\ UNCHANGED <<store, clock, ticks, PRIVATE_KEY, returned>>

\* initializeDatabase() rejects: the catch
InitializeDatabaseFail(body) ==
    /\ Throw("POST", body, FALSE, NULL, "init")
    /\ UNCHANGED <<store, clock, ticks, PRIVATE_KEY, req>>

\* The 404 goes out without a signature
RespInvalidUnsigned(machineId) == Plain(404, MsgInvalid)

RespInvalid(machineId) ==
    Signed(404, FALSE, MsgInvalid,
           signResponse(FALSE, MsgInvalid, machineId, FALSE, NULL))

RespOtherDevice(machineId) ==
    Signed(403, FALSE, MsgOtherDevice,
           signResponse(FALSE, MsgOtherDevice, machineId, FALSE, NULL))

\* The expired trial is answered with status 200 and success = false
RespTrialExpiredOk(machineId, expiry) ==
    Full(200, FALSE, MsgTrialExpired, TRUE, ToISOString(expiry),
         signResponse(FALSE, MsgTrialExpired, machineId, TRUE, ToISOString(expiry)))

RespTrialExpired(machineId, expiry) ==
    Full(402, FALSE, MsgTrialExpired, TRUE, ToISOString(expiry),
         signResponse(FALSE, MsgTrialExpired, machineId, TRUE, ToISOString(expiry)))

RespTrialActive(machineId, expiry, now) ==
    LET minutesLeft == Max(0, RoundMinutes(expiry - now))
        msg == MsgTrialActive(minutesLeft)
    IN Full(200, TRUE, msg, TRUE, ToISOString(expiry),
            signResponse(TRUE, msg, machineId, TRUE, ToISOString(expiry)))

RespVerified(machineId) ==
    Full(200, TRUE, MsgVerified, FALSE, NULL,
         signResponse(TRUE, MsgVerified, machineId, FALSE, NULL))

\* the trial check ahead of the device check
UsedResponseTrialFirst(codeData, machineId, now) ==
    IF codeData.is_trial
    THEN LET expiry == NewDate(codeData.trial_expires_at)
         IN IF now > expiry
            THEN RespTrialExpired(machineId, expiry)
            ELSE IF codeData.machine_id # Val(machineId)
                 THEN RespOtherDevice(machineId)
                 ELSE RespTrialActive(machineId, expiry, now)
    ELSE IF codeData.machine_id # Val(machineId)
         THEN RespOtherDevice(machineId)
         ELSE RespVerified(machineId)

\* the expiry compared without looking at is_trial
UsedResponseNoTrialFlag(codeData, machineId, now) ==
    IF codeData.machine_id # Val(machineId)
    THEN RespOtherDevice(machineId)
    ELSE LET expiry == NewDate(codeData.trial_expires_at)
         IN IF now > expiry
            THEN RespTrialExpired(machineId, expiry)
            ELSE IF codeData.is_trial
                 THEN RespTrialActive(machineId, expiry, now)
                 ELSE RespVerified(machineId)

\* now >= expiry
UsedResponseExpiresAtDeadline(codeData, machineId, now) ==
    IF codeData.machine_id # Val(machineId)
    THEN RespOtherDevice(machineId)
    ELSE IF codeData.is_trial
         THEN LET expiry == NewDate(codeData.trial_expires_at)
              IN IF now >= expiry
                 THEN RespTrialExpired(machineId, expiry)
                 ELSE RespTrialActive(machineId, expiry, now)
         ELSE RespVerified(machineId)

\* Response of the already-used branch for the row read
UsedResponse(codeData, machineId, now) ==
    IF codeData.machine_id # Val(machineId)
    THEN RespOtherDevice(machineId)
    ELSE IF codeData.is_trial
         THEN LET expiry == NewDate(codeData.trial_expires_at)
              IN IF now > expiry
                 THEN RespTrialExpired(machineId, expiry)
                 ELSE RespTrialActive(machineId, expiry, now)
         ELSE RespVerified(machineId)

RespActivated(machineId, isTrialCode, expiryDateValue) ==
    LET msg == IF isTrialCode THEN MsgTrialActivated ELSE MsgLifetimeActivated
    IN Full(200, TRUE, msg, isTrialCode, expiryDateValue,
            signResponse(TRUE, msg, machineId, isTrialCode, expiryDateValue))

\* the SELECT resolves and the handler resumes with the row: the decision
\* table; for an unused row the UPDATE is sent
SelectOk(inv) ==
    /\ inv.pc = "select"
    /\ LET body == inv.body
           machineId == body.machineId[1]
           row == SelectByCode(Trim(body.licenseCode[1]))
       IN IF row = NULL
          THEN /\ Return("POST", body, TRUE, row, FALSE, RespInvalid(machineId))
               /\ req' = Remove(inv)
          ELSE LET codeData == row[1]
               IN IF codeData.is_used
                  THEN /\ Return("POST", body, TRUE, row, FALSE,
                                 UsedResponse(codeData, machineId, clock))
                       /\ req' = Remove(inv)
                  ELSE LET isTrialCode == StartsWith(codeData.code, TRIAL_PREFIX)
                       IN /\ req' = Replace(inv,
                                [inv EXCEPT
                                    !.pc = "update",
                                    !.codeData = row,
                                    !.isTrialCode = isTrialCode,
                                    !.expiryDateValue =
                                        IF isTrialCode
                                        THEN ToISOString(clock + TRIAL_MS)
                                        ELSE NULL])
                          /\ UNCHANGED returned
                          /\ out' = NoOut
    /\ UNCHANGED <<store, clock, ticks, PRIVATE_KEY>>

\* the SELECT rejects: the catch
SelectFail(inv) ==
    /\ inv.pc = "select"
    /\ Throw("POST", inv.body, FALSE, NULL, "select")
    /\ req' = Remove(inv)
    /\ UNCHANGED <<store, clock, ticks, PRIVATE_KEY>>

\* the store runs the UPDATE and the handler returns the activation
UpdateOk(inv) ==
    /\ inv.pc = "update"
    /\ LET machineId == inv.body.machineId[1]
           isTrialCode == inv.isTrialCode
           expiryDateValue == inv.expiryDateValue
       IN /\ store' = UpdateQuery(machineId, isTrialCode, inv.codeData[1].id)
          /\ Return("POST", inv.body, TRUE, inv.codeData, TRUE,
                    RespActivated(machineId, isTrialCode, expiryDateValue))
    /\ req' = Remove(inv)
    /\ UNCHANGED <<clock, ticks, PRIVATE_KEY>>

\* The UPDATE is applied although the query rejects
UpdateFailApplied(inv) ==
    /\ inv.pc = "update"
    /\ store' = UpdateQuery(inv.body.machineId[1], inv.isTrialCode, inv.codeData[1].id)
    /\ Throw("POST", inv.body, TRUE, inv.codeData, "update")
    /\ req' = Remove(inv)
    /\ UNCHANGED <<clock, ticks, PRIVATE_KEY>>

\* the UPDATE rejects: the catch
UpdateFail(inv) ==
    /\ inv.pc = "update"
    /\ Throw("POST", inv.body, TRUE, inv.codeData, "update")
    /\ req' = Remove(inv)
    /\ UNCHANGED <<store, clock, ticks, PRIVATE_KEY>>

\* wall-clock time passes
Tick(d) ==
    /\ ticks < MaxTicks
    /\ ticks' = ticks + 1
    /\ clock' = clock + d
    /\ out' = NoOut
    /\ UNCHANGED <<store, PRIVATE_KEY, req, returned>>

\* Overlapping POST requests for the two codes, one of them seeded
Next ==
    \/ \E body \in KnownBodies : Receive(body, MaxInFlight)
    \/ \E inv \in InFlight : SelectOk(inv)
    \/ \E inv \in InFlight : SelectFail(inv)
    \/ \E inv \in InFlight : UpdateOk(inv)
    \/ \E inv \in InFlight : UpdateFail(inv)
    \/ \E d \in ClockSteps : Tick(d)

Spec == Init /\ [][Next]_vars

\* The function is deployed again with another LICENSE_PRIVATE_KEY: the
\* module is loaded anew and reads the variable; the table stays
Redeploy(key) ==
    /\ req = EmptyBag
    /\ PRIVATE_KEY' = getFormattedKey(key)
    /\ PRIVATE_KEY' # PRIVATE_KEY
    /\ out' = NoOut
    /\ UNCHANGED <<store, clock, ticks, req, returned>>

\* The first deployment has a signing key
InitKey == Init /\ PRIVATE_KEY = Val(PemKey)

\* Overlapping POST requests, and deployments between them
NextKey ==
    \/ Next
    \/ \E key \in KeyEnvs : Redeploy(key)

SpecKey == InitKey /\ [][NextKey]_vars

\* One request at a time, of every method and body; a request that is not
\* a POST carries no body
NextRequest ==
    \/ \E method \in Methods, body \in Bodies :
          /\ req = EmptyBag
          /\ method # "POST" => body = MalformedBody
          /\ Reject(method, body)
    \/ \E body \in Bodies : Receive(body, 1)
    \/ \E body \in Bodies : req = EmptyBag /\ InitializeDatabaseFail(body)
    \/ \E inv \in InFlight : SelectOk(inv)
    \/ \E inv \in InFlight : SelectFail(inv)
    \/ \E inv \in InFlight : UpdateOk(inv)
    \/ \E inv \in InFlight : UpdateFail(inv)
    \/ \E d \in ClockSteps : Tick(d)

SpecRequest == InitRequest /\ [][NextRequest]_vars

\* A trial that M1 activated at usedAt, polled by M1 from left milliseconds
\* before its expiry on
TrialRunning(usedAt, left) ==
    /\ store = [id \in {1} |->
                  Activate(Seed(id, CodeTrial), M1, TRUE, usedAt,
                           Val(usedAt + TRIAL_INTERVAL_MS))]
    /\ clock = usedAt + TRIAL_INTERVAL_MS - left
    /\ ticks = 0
    /\ PRIVATE_KEY \in {getFormattedKey(k) : k \in KeyEnvs}
    /\ req = EmptyBag
    /\ returned = {<<1, M1, "Activated">>}
    /\ out = NoOut

\* Activation times, and times left at the first poll: the whole trial, and
\* values around the half minutes, where Math.round steps
UsedAts == {0, 1, MS_PER_MINUTE \div 2}

Lefts ==
    {TRIAL_INTERVAL_MS, 2 * MS_PER_MINUTE + MS_PER_MINUTE \div 2,
     MS_PER_MINUTE + MS_PER_MINUTE \div 2 + 1, MS_PER_MINUTE + MS_PER_MINUTE \div 2,
     MS_PER_MINUTE, MS_PER_MINUTE \div 2 + 1, MS_PER_MINUTE \div 2, 1, 0}

HalfMinuteSteps == {1, MS_PER_MINUTE \div 2 - 1, MS_PER_MINUTE \div 2}

InitMinutes == \E usedAt \in UsedAts, left \in Lefts : TrialRunning(usedAt, left)

\* M1 polls its trial, one request at a time, while time passes
NextMinutes ==
    \/ Receive(Body(Val(CodeTrial), Val(M1)), 1)
    \/ \E inv \in InFlight : SelectOk(inv)
    \/ \E inv \in InFlight : SelectFail(inv)
    \/ \E d \in HalfMinuteSteps : Tick(d)

SpecMinutes == InitMinutes /\ [][NextMinutes]_vars

TypeOK ==
    /\ DOMAIN store \subseteq Ids
    /\ ticks \in 0..MaxTicks

----------------------------------------------------------------------------
(* Outcomes, as the decision table names them *)

IsActivated(resp) ==
    /\ resp.statusCode = 200
    /\ resp.success
    /\ resp.message \in {MsgTrialActivated, MsgLifetimeActivated}

IsVerified(resp) ==
    resp.statusCode = 200 /\ resp.success /\ resp.message = MsgVerified

IsBoundToOtherDevice(resp) ==
    resp.statusCode = 403 /\ ~resp.success /\ resp.message = MsgOtherDevice

IsTrialExpired(resp) ==
    resp.statusCode = 402 /\ ~resp.success /\ resp.message = MsgTrialExpired

IsTrialActive(resp) ==
    /\ resp.statusCode = 200
    /\ resp.success
    /\ Len(resp.message) = 3
    /\ resp.message[1] = "Trial active. Expires in "

IsTrialRow(row) == StartsWith(row.code, TRIAL_PREFIX)

\* o is the return of an invocation whose SELECT gave a used row
ReadUsed(o) ==
    /\ o.selected
    /\ o.codeData # NULL
    /\ o.codeData[1].is_used

\* o is the return of an invocation whose UPDATE ran
Wrote(o) == o.selected /\ o.updated

\* o is the return of an invocation whose SELECT gave an unused row
ReadUnused(o) ==
    /\ o.selected
    /\ o.codeData # NULL
    /\ ~o.codeData[1].is_used

----------------------------------------------------------------------------
(* Claims *)

\* C1: once a record has is_used = true with machine_id = m, its machine_id
\* is m in every later state of the store, under any interleaving of requests.
C1_BindingPermanent ==
    [][\A id \in DOMAIN store :
          store[id].is_used => store'[id].machine_id = store[id].machine_id]_vars

\* C2: two first-activation requests for one unused code from two machines
\* can both read is_used = false before either writes; then the UPDATE of the
\* second runs on the row the first has already bound, both are answered
\* 200/Activated, and the row ends bound to the machine whose UPDATE ran last.
C2_DoubleActivation ==
    [][\A id \in DOMAIN store :
          (/\ Wrote(out')
           /\ out'.codeData[1].id = id
           /\ store[id].is_used
           /\ store[id].machine_id # out'.body.machineId)
          => /\ ~out'.codeData[1].is_used
             /\ <<id, store[id].machine_id[1], "Activated">> \in returned
             /\ IsActivated(out'.response)
             /\ store'[id].machine_id = out'.body.machineId]_vars

\* C2 witness: the code has been answered Activated to both machines and the
\* row is bound to the one that has just written.
C2_Witness ==
    /\ Wrote(out)
    /\ IsActivated(out.response)
    /\ out.body.machineId = Val(M2)
    /\ <<out.codeData[1].id, M1, "Activated">> \in returned
    /\ <<out.codeData[1].id, M2, "Activated">> \in returned
    /\ store[out.codeData[1].id].machine_id = Val(M2)

\* C3: after machine M has been answered 200/Activated for a non-trial code,
\* every request for that code that reads the row later is answered
\* 200/Verified if it comes from M and 403/BoundToOtherDevice otherwise.
C3_ActivationStable ==
    \A e \in returned :
        (/\ e[3] = "Activated"
         /\ ~IsTrialRow(store[e[1]])
         /\ ReadUsed(out)
         /\ out.codeData[1].id = e[1])
        => IF out.body.machineId = Val(e[2])
           THEN IsVerified(out.response)
           ELSE IsBoundToOtherDevice(out.response)

\* C4: a request that reads a row with is_used = true and a machine_id other
\* than its machineId is answered 403/BoundToOtherDevice with success = false,
\* whatever is_trial and the trial expiry are, and writes nothing.
C4_OtherDevice ==
    [][(/\ ReadUsed(out')
        /\ out'.codeData[1].machine_id # out'.body.machineId)
       => /\ IsBoundToOtherDevice(out'.response)
          /\ ~out'.updated
          /\ store' = store]_vars

\* C4 witness: another machine asks for a trial row whose expiry has passed.
C4_Witness ==
    /\ ReadUsed(out)
    /\ out.codeData[1].machine_id # out.body.machineId
    /\ out.codeData[1].is_trial
    /\ clock > out.codeData[1].trial_expires_at[1]
    /\ IsBoundToOtherDevice(out.response)

\* C5: a request that reads a row with is_used = true, its own machineId and
\* is_trial = false is answered 200/Verified with isTrial = false and
\* expiryDate = null, and leaves every field of every record unchanged.
C5_Verified ==
    [][(/\ ReadUsed(out')
        /\ out'.codeData[1].machine_id = out'.body.machineId
        /\ ~out'.codeData[1].is_trial)
       => /\ IsVerified(out'.response)
          /\ {"isTrial", "expiryDate"} \subseteq out'.response.keys
          /\ out'.response.isTrial = FALSE
          /\ out'.response.expiryDate = NULL
          /\ ~out'.updated
          /\ store' = store]_vars

\* C5 witness: the bound machine re-verifies its lifetime license.
C5_Witness ==
    /\ ReadUsed(out)
    /\ out.codeData[1].machine_id = out.body.machineId
    /\ ~out.codeData[1].is_trial
    /\ IsVerified(out.response)

\* C6: each record is written at most once, by its first activation, and no
\* record is deleted: a used record is the same in every later state.
C6_WrittenOnce ==
    [][/\ DOMAIN store' = DOMAIN store
       /\ \A id \in DOMAIN store : store[id].is_used => store'[id] = store[id]]_vars

\* C7: the UPDATE of a first activation of a code without the TRIAL- prefix
\* leaves the row with is_used = true, machine_id = M, is_trial = false and
\* trial_expires_at = NULL, and the request is answered 200/Activated with
\* isTrial = false and expiryDate = null.  A request that read the row unused
\* returns nothing else, unless the store rejects its UPDATE (500).
C7_LifetimeActivation ==
    [][(ReadUnused(out') /\ ~IsTrialRow(out'.codeData[1]))
       => LET row == store'[out'.codeData[1].id]
          IN \/ ~out'.updated /\ out'.response.statusCode = 500 /\ store' = store
             \/ /\ out'.updated
                /\ IsActivated(out'.response)
                /\ out'.response.isTrial = FALSE
                /\ out'.response.expiryDate = NULL
                /\ row.is_used
                /\ row.machine_id = out'.body.machineId
                /\ row.is_trial = FALSE
                /\ row.trial_expires_at = NULL]_vars

\* C7 witness: a lifetime code has just been activated.
C7_Witness ==
    /\ Wrote(out)
    /\ ~IsTrialRow(out.codeData[1])
    /\ out.response.message = MsgLifetimeActivated
    /\ store[out.codeData[1].id].machine_id = out.body.machineId

\* C8: the UPDATE of a first activation of a code with the TRIAL- prefix
\* stores is_trial = true, machine_id = M and a trial expiry of exactly the
\* activation time (used_at) plus 10 minutes, and the request is answered
\* 200/Activated with isTrial = true.  A request that read the row unused
\* returns nothing else, unless the store rejects its UPDATE (500).
C8_TrialActivation ==
    [][(ReadUnused(out') /\ IsTrialRow(out'.codeData[1]))
       => LET row == store'[out'.codeData[1].id]
          IN \/ ~out'.updated /\ out'.response.statusCode = 500 /\ store' = store
             \/ /\ out'.updated
                /\ IsActivated(out'.response)
                /\ out'.response.isTrial = TRUE
                /\ row.is_used
                /\ row.machine_id = out'.body.machineId
                /\ row.is_trial = TRUE
                /\ row.used_at = Val(clock)
                /\ row.trial_expires_at = Val(row.used_at[1] + 10 * MS_PER_MINUTE)]_vars

\* C8 witness: a trial code has just been activated, some time after start.
C8_Witness ==
    /\ Wrote(out)
    /\ IsTrialRow(out.codeData[1])
    /\ out.response.message = MsgTrialActivated
    /\ clock > 0
    /\ store[out.codeData[1].id].trial_expires_at = Val(clock + TRIAL_INTERVAL_MS)

\* C9: a request that reads a row with is_used = true, its own machineId and
\* is_trial = true is answered 402/TrialExpired with success = false if the
\* current time is strictly after the stored expiry, and 200/TrialActive with
\* success = true otherwise, also when the time equals the expiry; both
\* responses carry isTrial = true and the stored expiry.
C9_TrialDecision ==
    (/\ ReadUsed(out)
     /\ out.codeData[1].machine_id = out.body.machineId
     /\ out.codeData[1].is_trial)
    => /\ IF clock > out.codeData[1].trial_expires_at[1]
          THEN IsTrialExpired(out.response)
          ELSE IsTrialActive(out.response)
       /\ {"isTrial", "expiryDate"} \subseteq out.response.keys
       /\ out.response.isTrial = TRUE
       /\ out.response.expiryDate = ToISOString(out.codeData[1].trial_expires_at[1])

\* C9 witness: the bound machine asks at the very instant of the expiry.
C9_Witness ==
    /\ ReadUsed(out)
    /\ out.codeData[1].machine_id = out.body.machineId
    /\ out.codeData[1].is_trial
    /\ clock = out.codeData[1].trial_expires_at[1]
    /\ IsTrialActive(out.response)

\* C10: once the bound machine has been answered 402/TrialExpired for a trial
\* code, every request of that machine for that code that reads the row later
\* is answered 402/TrialExpired too, and the record stays as it is.
C10_ExpiryIrreversible ==
    \A e \in returned :
        (/\ e[3] = "TrialExpired"
         /\ ReadUsed(out)
         /\ out.codeData[1].id = e[1]
         /\ out.body.machineId = Val(e[2]))
        => IsTrialExpired(out.response)

----------------------------------------------------------------------------
(* Rejections and store errors *)

\* C11: a request whose trimmed licenseCode is the code of no record is
\* answered 404/InvalidCode with success = false and, when the configured key
\* is a signing key, a signature that is not null; it creates no record and
\* changes no record, whatever its machineId.
C11_InvalidCode ==
    [][(/\ out'.httpMethod = "POST"
        /\ out'.selected
        /\ \A id \in DOMAIN store :
              store[id].code # Trim(out'.body.licenseCode[1]))
       => /\ out'.codeData = NULL
          /\ out'.response.statusCode = 404
          /\ ~out'.response.success
          /\ out'.response.message = MsgInvalid
          /\ "signature" \in out'.response.keys
          /\ PRIVATE_KEY = Val(PemKey) => out'.response.signature # NULL
          /\ ~out'.updated
          /\ store' = store]_vars

\* C11 witness: a licenseCode of one blank, which trims to the empty code, is
\* answered 404 under a signing key.
C11_Witness ==
    /\ out.selected
    /\ out.body.licenseCode = Val(<<" ">>)
    /\ out.codeData = NULL
    /\ out.response.statusCode = 404
    /\ PRIVATE_KEY = Val(PemKey)
    /\ out.response.signature # NULL

\* C12: under a signing key every response to a POST request, of success or
\* of failure, the 400 and the 500 included, has a signature that is not
\* null.
C12_EverySigned ==
    (PRIVATE_KEY = Val(PemKey) /\ out.httpMethod = "POST")
    => /\ "signature" \in out.response.keys
       /\ out.response.signature # NULL

\* C13: the tuple under a signature is exactly (success, message, machineId,
\* isTrial, expiryDate), where success, message, isTrial and expiryDate are
\* the values the body of that response carries and machineId is the
\* machineId of the request.
C13_SignedTuple ==
    out.response.signature # NULL
    => LET payload == out.response.signature[1].payload
       IN /\ DOMAIN payload =
                {"success", "message", "machineId", "isTrial", "expiryDate"}
          /\ {"success", "message", "isTrial", "expiryDate"}
                \subseteq out.response.keys
          /\ payload.success = out.response.success
          /\ payload.message = out.response.message
          /\ payload.machineId = out.body.machineId[1]
          /\ payload.isTrial = out.response.isTrial
          /\ payload.expiryDate = out.response.expiryDate

\* C13 as the handler has it: the tuple under a signature is exactly
\* (success, message, machineId, isTrial, expiryDate); success and message
\* are the values of the body, machineId is the machineId of the request,
\* and isTrial and expiryDate are the values of the body where the body
\* carries them and false and null where it omits both, which it does in the
\* 404 and the 403 only.
C13_SignedTupleDefaults ==
    out.response.signature # NULL
    => LET payload == out.response.signature[1].payload
           keys == out.response.keys
       IN /\ DOMAIN payload =
                {"success", "message", "machineId", "isTrial", "expiryDate"}
          /\ {"success", "message"} \subseteq keys
          /\ payload.success = out.response.success
          /\ payload.message = out.response.message
          /\ payload.machineId = out.body.machineId[1]
          /\ IF {"isTrial", "expiryDate"} \subseteq keys
             THEN /\ payload.isTrial = out.response.isTrial
                  /\ payload.expiryDate = out.response.expiryDate
             ELSE /\ keys \cap {"isTrial", "expiryDate"} = {}
                  /\ out.response.statusCode \in {403, 404}
                  /\ payload.isTrial = FALSE
                  /\ payload.expiryDate = NULL

\* C13 witness: a signed 403, whose body has neither isTrial nor expiryDate.
C13_Witness ==
    /\ out.response.statusCode = 403
    /\ out.response.signature # NULL
    /\ "isTrial" \notin out.response.keys
    /\ out.response.signature[1].payload.machineId = out.body.machineId[1]

\* resp with its signature, where it has one, set to null
Unsigned(resp) ==
    IF "signature" \in resp.keys THEN [resp EXCEPT !.signature = NULL] ELSE resp

\* C14: for every table and every request, the handler without a key gives
\* the response the handler with a signing key gives, but for the signature,
\* which is null, and sends the same UPDATE.  Stated on the deployment that
\* takes the key away: what the handler answers to any machine for any
\* record, and what its UPDATE writes, is the same before and after.
C14_KeyIndependent ==
    [][(PRIVATE_KEY = Val(PemKey) /\ PRIVATE_KEY' = NULL)
       => /\ store' = store
          /\ \A machineId \in Machines :
                /\ RespInvalid(machineId)' = Unsigned(RespInvalid(machineId))
                /\ \A id \in DOMAIN store :
                      IF store[id].is_used
                      THEN UsedResponse(store[id], machineId, clock)'
                              = Unsigned(UsedResponse(store[id], machineId, clock))
                      ELSE \A isTrialCode \in BOOLEAN :
                              LET expiryDateValue ==
                                      IF isTrialCode
                                      THEN ToISOString(clock + TRIAL_MS)
                                      ELSE NULL
                              IN /\ RespActivated(machineId, isTrialCode,
                                                  expiryDateValue)'
                                      = Unsigned(RespActivated(machineId, isTrialCode,
                                                               expiryDateValue))
                                 /\ UpdateQuery(machineId, isTrialCode, id)'
                                      = UpdateQuery(machineId, isTrialCode, id)]_vars

\* C14 witness: after the key was taken away a trial code is activated and
\* the response has a null signature.
C14_Witness ==
    /\ PRIVATE_KEY = NULL
    /\ Wrote(out)
    /\ IsActivated(out.response)
    /\ out.response.isTrial = TRUE
    /\ "signature" \in out.response.keys
    /\ out.response.signature = NULL
    /\ store[out.codeData[1].id].machine_id = out.body.machineId

\* v is a field that is missing or the empty string
MissingOrEmpty(v) == Len(v) = 0 \/ Len(v[1]) = 0

\* C15: a POST request whose licenseCode or machineId is missing or empty is
\* answered 400 with success = false, and no record is read or written for
\* it: no query for a row is sent and the table stays as it is.  The one
\* other answer is the 500 of a store that fails while the schema is set up.
C15_MissingField ==
    [][(/\ out'.httpMethod = "POST"
        /\ out'.body.json
        /\ MissingOrEmpty(out'.body.licenseCode) \/ MissingOrEmpty(out'.body.machineId))
       => /\ ~out'.selected
          /\ ~out'.updated
          /\ req' = req
          /\ store' = store
          /\ \/ /\ out'.failed = ""
                /\ out'.response.statusCode = 400
                /\ ~out'.response.success
                /\ out'.response.message = MsgRequired
             \/ /\ out'.failed = "init"
                /\ out'.response.statusCode = 500]_vars

\* C15 witness: a POST with an empty licenseCode is answered 400.
C15_Witness ==
    /\ out.httpMethod = "POST"
    /\ out.body.licenseCode = Val(<<>>)
    /\ out.body.machineId = Val(M1)
    /\ out.response.statusCode = 400
    /\ ~out.selected

\* C16: a POST request whose body is not parseable JSON is answered 400
\* (MalformedBody), when the schema set-up has not failed before the body is
\* read.
C16_MalformedBody ==
    (out.httpMethod = "POST" /\ ~out.body.json /\ out.failed # "init")
    => out.response.statusCode = 400

\* C17: when the store fails while the schema is set up, at the SELECT or at
\* the UPDATE, the request is answered 500 with success = false and the one
\* generic message, the table stays as it is and nothing is tried again: the
\* invocation is over and no query of it is left.  When it is the UPDATE
\* that fails, the record is as the request read it, unused, for a later
\* request to activate.
C17_StoreFailure ==
    [][out'.failed \in {"init", "select", "update"}
       => /\ out'.response.statusCode = 500
          /\ ~out'.response.success
          /\ out'.response.message = MsgServerError
          /\ out'.response.keys = {"success", "message"}
          /\ store' = store
          /\ req' = EmptyBag
          /\ out'.failed = "update"
             => LET codeData == out'.codeData[1]
                IN /\ store'[codeData.id] = codeData
                   /\ ~store'[codeData.id].is_used
                   /\ store'[codeData.id].machine_id = NULL]_vars

\* C17 witness: the UPDATE of a first activation has been rejected and the
\* request is answered 500.
C17_Witness ==
    /\ out.failed = "update"
    /\ out.response.statusCode = 500
    /\ ~store[out.codeData[1].id].is_used
    /\ req = EmptyBag

\* C18: a request reads once and writes at most once, and writes only after
\* its read showed is_used = false: every step that changes the table is the
\* UPDATE of such a request, ends that request, and changes only the row
\* whose id was read and in it only is_used, used_at, machine_id, is_trial
\* and trial_expires_at; id, code and created_at of that row and every other
\* record stay as they are, and no record is added or removed.
C18_Frame ==
    [][/\ DOMAIN store' = DOMAIN store
       /\ out'.updated => ReadUnused(out')
       /\ store' # store
          => /\ Wrote(out')
             /\ ReadUnused(out')
             /\ req' = EmptyBag
             /\ LET id == out'.codeData[1].id
                IN /\ \A i \in DOMAIN store :
                         store[i].id # id => store'[i] = store[i]
                   /\ \A i \in DOMAIN store :
                         store[i].id = id
                         => /\ store'[i].id = store[i].id
                            /\ store'[i].code = store[i].code
                            /\ store'[i].created_at = store[i].created_at
                            /\ DOMAIN store'[i] = DOMAIN store[i]]_vars

\* C18 witness: the trial code has just been activated while the other
\* record, bound before to another machine, is as it was.
C18_Witness ==
    /\ Wrote(out)
    /\ IsTrialRow(out.codeData[1])
    /\ \E i \in DOMAIN store :
          /\ store[i].id # out.codeData[1].id
          /\ store[i].is_used
          /\ store[i].machine_id # out.body.machineId

----------------------------------------------------------------------------
(* Time *)

\* The minutes a TrialActive response reports
MinutesLeft(resp) == resp.message[2]

\* C19: the minutes left a TrialActive response reports are
\* max(0, round((expiry - now) / 60000)): never negative, and for a trial of
\* a fixed expiry and times t1 <= t2 <= expiry the value at t2 is at most
\* the value at t1.  Stated on every TrialActive response that is returned
\* and on every step of the clock up to the expiry.
C19_MinutesLeft ==
    [][/\ IsTrialActive(out'.response)
          => LET expiry == out'.codeData[1].trial_expires_at[1]
             IN /\ MinutesLeft(out'.response) >= 0
                /\ MinutesLeft(out'.response)
                      = MinutesLeft(RespTrialActive(M1, expiry, clock'))
                /\ 2 * MS_PER_MINUTE * MinutesLeft(out'.response)
                      <= 2 * (expiry - clock') + MS_PER_MINUTE
                /\ 2 * MS_PER_MINUTE * MinutesLeft(out'.response)
                      > 2 * (expiry - clock') - MS_PER_MINUTE
       /\ \A id \in DOMAIN store :
             LET expiry == NewDate(store[id].trial_expires_at)
             IN (/\ store[id].is_trial
                 /\ store' = store
                 /\ clock <= clock'
                 /\ clock' <= expiry)
                => /\ MinutesLeft(RespTrialActive(M1, expiry, clock')) >= 0
                   /\ MinutesLeft(RespTrialActive(M1, expiry, clock'))
                         <= MinutesLeft(RespTrialActive(M1, expiry, clock))]_vars

\* C19 witness: one millisecond after the half minute before the expiry the
\* trial is reported active with 0 minutes left.
C19_Witness ==
    /\ ticks > 0
    /\ IsTrialActive(out.response)
    /\ out.codeData[1].trial_expires_at[1] - clock = MS_PER_MINUTE \div 2 - 1
    /\ MinutesLeft(out.response) = 0

\* C20: the expiryDate in the Activated response of a trial code is the
\* expiryDate the later TrialActive and TrialExpired responses report for
\* the record, which is the ISO text of the trial_expires_at the UPDATE
\* stored.
C20_ExpiryAgrees ==
    [][(Wrote(out') /\ IsActivated(out'.response) /\ out'.response.isTrial = TRUE)
       => LET row == store'[out'.codeData[1].id]
          IN /\ out'.response.expiryDate
                   = RespTrialActive(out'.body.machineId[1],
                                     NewDate(row.trial_expires_at),
                                     clock').expiryDate
             /\ out'.response.expiryDate
                   = RespTrialExpired(out'.body.machineId[1],
                                      NewDate(row.trial_expires_at)).expiryDate]_vars

----------------------------------------------------------------------------
(* Responses and records *)

StatusCodes == {200, 204, 400, 402, 403, 404, 405, 500}

\* C21: in every response the success flag of the body is true exactly when
\* the status code is 200, and the status code is one of 200, 204, 400, 402,
\* 403, 404, 405, 500; every response but the 204, which has no body,
\* carries the flag.  A 200 is returned only when the record read was unused
\* and was then updated, or was bound to the machine of the request and, for
\* a trial, the clock is not past its expiry.
C21_StatusCodes ==
    out.httpMethod # ""
    => LET resp == out.response
       IN /\ resp.statusCode \in StatusCodes
          /\ resp.statusCode # 204 <=> "success" \in resp.keys
          /\ ("success" \in resp.keys /\ resp.success) <=> resp.statusCode = 200
          /\ resp.statusCode = 200
             => \/ ReadUnused(out) /\ out.updated
                \/ /\ ReadUsed(out)
                   /\ ~out.updated
                   /\ out.codeData[1].machine_id = out.body.machineId
                   /\ out.codeData[1].is_trial
                      => clock <= NewDate(out.codeData[1].trial_expires_at)

\* C21 witness: the bound machine is answered 200 for its trial some time
\* after the activation and not past the expiry.
C21_Witness ==
    /\ ReadUsed(out)
    /\ out.response.statusCode = 200
    /\ out.response.success
    /\ out.codeData[1].is_trial
    /\ clock > out.codeData[1].used_at[1]
    /\ clock <= out.codeData[1].trial_expires_at[1]

\* C22: from a table whose records are all unused, with no machine_id, with
\* is_trial = false and no trial_expires_at, every record of every reachable
\* table has: is_used = true implies that machine_id is a machine identifier
\* that is not empty; is_trial = true exactly when trial_expires_at is not
\* null; is_trial = true exactly when is_used = true and the code starts
\* with TRIAL-.
C22_WellFormed ==
    \A id \in DOMAIN store :
        LET row == store[id]
        IN /\ row.is_used
              => /\ Len(row.machine_id) = 1
                 /\ Len(row.machine_id[1]) > 0
                 /\ row.used_at # NULL
           /\ row.is_trial <=> row.trial_expires_at # NULL
           /\ row.is_trial <=> (row.is_used /\ StartsWith(row.code, TRIAL_PREFIX))

\* C22 witness: both records are bound, the lifetime code without and the
\* trial code with an expiry.
C22_Witness ==
    /\ \E id \in DOMAIN store :
          /\ store[id].is_used
          /\ store[id].is_trial
          /\ store[id].trial_expires_at # NULL
    /\ \E id \in DOMAIN store :
          /\ store[id].is_used
          /\ ~store[id].is_trial
          /\ store[id].machine_id \in {Val(M1), Val(M2)}

====
